---- MODULE Spec2Model ----
(***************************************************************************)
(* Model of greenguard/loader.py: the raw-log assembly pipeline of         *)
(* GreenGuardRawLoader (load, _load_readings, _get_times,                  *)
(* _load_turbine_readings, _filter_by_filename, _filter_by_signal,         *)
(* _filter_by_timestamp) and the demo cache of load_demo.                  *)
(*                                                                         *)
(* Strings that the code compares with <= (file names, strftime output,    *)
(* turbine ids) are sequences of ASCII codes, compared as Python compares  *)
(* str.  Times are whole days counted from 2019-01-01 over the real        *)
(* calendar of 2019 and 2020; datetime.min is the day DatetimeMin.         *)
(***************************************************************************)
EXTENDS Integers, Sequences, FiniteSets, TLC

(* ---------------------------------------------------------------------- *)
(* Python str ordering                                                    *)
(* ---------------------------------------------------------------------- *)

RECURSIVE StrLeq(_, _)
StrLeq(a, b) ==
    IF a = <<>> THEN TRUE
    ELSE IF b = <<>> THEN FALSE
    ELSE IF Head(a) < Head(b) THEN TRUE
    ELSE IF Head(a) > Head(b) THEN FALSE
    ELSE StrLeq(Tail(a), Tail(b))

Digit(n) == 48 + n

Digits2(n) == <<Digit(n \div 10), Digit(n % 10)>>

Digits4(n) ==
    <<Digit(n \div 1000), Digit((n \div 100) % 10), Digit((n \div 10) % 10), Digit(n % 10)>>

(* ".csv" *)
DotCsv == <<46, 99, 115, 118>>

(* ---------------------------------------------------------------------- *)
(* Calendar                                                               *)
(* ---------------------------------------------------------------------- *)

Years == 2019..2020

EpochYear == CHOOSE y \in Years : \A z \in Years : y <= z

IsLeap(y) == (y % 4 = 0 /\ y % 100 # 0) \/ y % 400 = 0

DaysIn(y, m) ==
    IF m = 2 THEN (IF IsLeap(y) THEN 29 ELSE 28)
    ELSE IF m \in {4, 6, 9, 11} THEN 30
    ELSE 31

DaysInYear(y) == IF IsLeap(y) THEN 366 ELSE 365

(* days of the year before the first of month m *)
CumDays(y, m) ==
    LET common == <<0, 31, 59, 90, 120, 151, 181, 212, 243, 273, 304, 334>>
    IN IF IsLeap(y) /\ m > 2 THEN common[m] + 1 ELSE common[m]

RECURSIVE YearStart(_)
YearStart(y) == IF y <= EpochYear THEN 0 ELSE YearStart(y - 1) + DaysInYear(y - 1)

(* datetime.min, 0001-01-01 00:00:00: below every day of the calendar *)
DatetimeMin == -1

ValidDate(y, m, d) ==
    /\ y \in Years
    /\ m \in 1..12
    /\ d \in 1..DaysIn(y, m)

ToDay(y, m, d) == YearStart(y) + CumDays(y, m) + (d - 1)

YearOf(t) ==
    IF t = DatetimeMin THEN 1
    ELSE CHOOSE y \in Years :
            YearStart(y) <= t /\ t < YearStart(y) + DaysInYear(y)

MonthOf(t) ==
    IF t = DatetimeMin THEN 1
    ELSE LET y == YearOf(t)
             doy == t - YearStart(y)
         IN CHOOSE m \in 1..12 :
                CumDays(y, m) <= doy /\ doy < CumDays(y, m) + DaysIn(y, m)

(* Series.dt.strftime('%Y-%m-.csv') of one value *)
Strftime(t) == Digits4(YearOf(t)) \o <<45>> \o Digits2(MonthOf(t)) \o <<45>> \o DotCsv

(* ---------------------------------------------------------------------- *)
(* Text conversions                                                       *)
(* ---------------------------------------------------------------------- *)

(* A log-file timestamp text.  fmt "mdy" is MM/DD/YY HH:MM:SS with a the  *)
(* month, b the day and c the two-digit year; fmt "iso" is YYYY-MM-DD     *)
(* HH:MM:SS, which the format '%m/%d/%y %H:%M:%S' does not match.         *)
Mdy(mm, dd, yy) == [fmt |-> "mdy", a |-> mm, b |-> dd, c |-> yy]
Iso(y, m, d) == [fmt |-> "iso", a |-> y, b |-> m, c |-> d]

(* %y: 69..99 are 1969..1999, 00..68 are 2000..2068 *)
FullYear(yy) == IF yy >= 69 THEN 1900 + yy ELSE 2000 + yy

(* pd.to_datetime(text, format='%m/%d/%y %H:%M:%S') of one value: whether *)
(* the text matches the format, and the time it reads then                *)
TimestampParses(txt) == txt.fmt = "mdy" /\ ValidDate(FullYear(txt.c), txt.a, txt.b)

(* NaT, the missing time: no comparison with it holds *)
NaT == DatetimeMin - 1

ParseTimestamp(txt) ==
    IF TimestampParses(txt) THEN ToDay(FullYear(txt.c), txt.a, txt.b) ELSE NaT

(* A cutoff_time text of the target table: "YYYY-MM-DD HH:MM:SS" (long)   *)
(* or "YYYY-MM-DD" (short); pd.to_datetime without a format reads both.   *)
Cutoff(y, m, d, form) == [y |-> y, m |-> m, d |-> d, form |-> form]

ParseCutoff(txt) == ToDay(txt.y, txt.m, txt.d)

(* A window_size rule such as "30d" is [n |-> 30, unit |-> "d"]; NoWindow  *)
(* is the default None.  pd.to_timedelta of a rule, in days:              *)
NoWindow == [n |-> 0, unit |-> "None"]

Rule(n, unit) == [n |-> n, unit |-> unit]

UnitDays(u) == IF u = "W" THEN 7 ELSE 1

ToTimedelta(ws) == ws.n * UnitDays(ws.unit)

(* ---------------------------------------------------------------------- *)
(* The readings folder                                                    *)
(* ---------------------------------------------------------------------- *)

(* turbine ids "T1", "T2" *)
T1 == <<84, 49>>
T2 == <<84, 50>>

TurbineIds == {T1, T2}

(* "YYYY-MM.csv" and "YYYY-MM-.csv" *)
PlainName(y, m) == Digits4(y) \o <<45>> \o Digits2(m) \o DotCsv
DashName(y, m) == Digits4(y) \o <<45>> \o Digits2(m) \o <<45>> \o DotCsv

RawRow(ts, sig, val) == [timestamp |-> ts, signal |-> sig, value |-> val]

RawFile(name, header, rows) == [name |-> name, header |-> header, rows |-> rows]

Header == {"timestamp", "signal", "value"}
UpperHeader == {"Timestamp", "Signal", "Value"}
IndexedHeader == {"Unnamed: 0", "timestamp", "signal", "value"}

(* The folders the model runs on.  "plain": one file T1/2020-02.csv with   *)
(* rows at 2020-02-10 and 2020-01-01.  "dash": files named as strftime     *)
(* '%Y-%m-.csv' names them, every row in the month of its file.            *)
(* "dashbad": "dash" with one more row in T1/2020-02-.csv, of signal S2,   *)
(* whose timestamp is not MM/DD/YY HH:MM:SS.  In "plain" the folder of T2  *)
(* is empty.                                                               *)
FsKinds == {"plain", "dash", "dashbad"}

T1Feb ==
    << RawRow(Mdy(2, 15, 20), "S2", 5),
       RawRow(Mdy(2, 10, 20), "S1", 32),
       RawRow(Mdy(2, 15, 20), "S1", 6) >>

Folder(fs, turbine) ==
    IF turbine = T1 THEN
        IF fs = "plain" THEN
            { RawFile(PlainName(2020, 2), Header,
                      << RawRow(Mdy(2, 10, 20), "S1", 32),
                         RawRow(Mdy(1, 1, 20), "S1", 99) >>) }
        ELSE
            { RawFile(DashName(2019, 12), Header,
                      << RawRow(Mdy(12, 17, 19), "S1", 8) >>),
              RawFile(DashName(2020, 1), UpperHeader,
                      << RawRow(Mdy(1, 16, 20), "S1", 1),
                         RawRow(Mdy(1, 1, 20), "S2", 2) >>),
              RawFile(DashName(2020, 2), IndexedHeader,
                      IF fs = "dashbad"
                      THEN Append(T1Feb, RawRow(Iso(2020, 2, 12), "S2", 7))
                      ELSE T1Feb),
              RawFile(DashName(2020, 3), Header,
                      << RawRow(Mdy(3, 15, 20), "S1", 9) >>) }
    ELSE IF fs = "plain" THEN {}
    ELSE { RawFile(DashName(2020, 2), Header, << RawRow(Mdy(2, 10, 20), "S2", 4) >>) }

(* os.listdir(turbine_path) *)
Listdir(fs, turbine) == {f.name : f \in Folder(fs, turbine)}

(* the file behind a path *)
FileAt(fs, turbine, name) == CHOOSE f \in Folder(fs, turbine) : f.name = name

(* sorted(...) of distinct str values *)
RECURSIVE Sorted(_)
Sorted(S) ==
    IF S = {} THEN <<>>
    ELSE LET least == CHOOSE x \in S : \A y \in S : StrLeq(x, y)
         IN <<least>> \o Sorted(S \ {least})

(* ---------------------------------------------------------------------- *)
(* Tables: [columns |-> set of names, rows |-> sequence of records]       *)
(* ---------------------------------------------------------------------- *)

Table(columns, rows) == [columns |-> columns, rows |-> rows]

Lower(c) ==
    CASE c = "Timestamp" -> "timestamp"
      [] c = "Signal" -> "signal"
      [] c = "Value" -> "value"
      [] c = "Unnamed: 0" -> "unnamed: 0"
      [] OTHER -> c

RECURSIVE Flatten(_)
Flatten(ss) == IF ss = <<>> THEN <<>> ELSE Head(ss) \o Flatten(Tail(ss))

(* pd.concat of a non-empty list of tables *)
PdConcat(tables) ==
    Table(UNION {tables[i].columns : i \in DOMAIN tables},
          Flatten([i \in DOMAIN tables |-> tables[i].rows]))

(* GreenGuardRawLoader._load_readings_file *)
LoadReadingsFile(file) ==
    LET lowered == {Lower(c) : c \in file.header}
        renamed == {IF c = "signal" THEN "signal_id" ELSE c : c \in lowered}
    IN Table(renamed \ {"unnamed: 0"},
             [i \in DOMAIN file.rows |->
                 [timestamp |-> file.rows[i].timestamp,
                  signal_id |-> file.rows[i].signal,
                  value |-> file.rows[i].value]])

(* The signals argument: NoSignals is None, SignalList(ids) the table     *)
(* pd.DataFrame({'signal_id': ids}).                                      *)
NoSignals == [isNone |-> TRUE, signal_id |-> <<>>]

SignalList(ids) == [isNone |-> FALSE, signal_id |-> ids]

Isin(x, column) == \E i \in DOMAIN column : column[i] = x

(* GreenGuardRawLoader._filter_by_signal *)
FilterBySignal(data, signals) ==
    IF ~signals.isNone
    THEN LET Keep(r) == Isin(r.signal_id, signals.signal_id)
         IN Table(data.columns, SelectSeq(data.rows, Keep))
    ELSE data

(* to_datetime with errors='coerce': a value that does not match the      *)
(* format becomes NaT and nothing is raised                               *)
ToDatetimeCoerces(column) == FALSE

(* pd.to_datetime(data['timestamp'], format=...) raises ValueError unless *)
(* every value of the column matches the format                           *)
ToDatetimeRaises(column) == \E i \in DOMAIN column : ~TimestampParses(column[i])

(* rows of a sequence under a boolean mask, data[related] *)
RECURSIVE Masked(_, _)
Masked(rows, related) ==
    IF rows = <<>> THEN <<>>
    ELSE (IF Head(related) THEN <<Head(rows)>> ELSE <<>>)
         \o Masked(Tail(rows), Tail(related))

(* the loop with the start of every window left out of it *)
RelatedOpenStart(timestamps, X, k) ==
    [i \in DOMAIN timestamps |->
        \E j \in 1..k : X[j].start < timestamps[i] /\ timestamps[i] <= X[j].end]

(* related after the loop over X.itertuples() has run rows 1..k *)
RECURSIVE Related(_, _, _)
Related(timestamps, X, k) ==
    IF k = 0 THEN [i \in DOMAIN timestamps |-> FALSE]
    ELSE LET before == Related(timestamps, X, k - 1)
         IN [i \in DOMAIN timestamps |->
                before[i] \/ (X[k].start <= timestamps[i] /\ timestamps[i] <= X[k].end)]

(* GreenGuardRawLoader._filter_by_timestamp, when to_datetime succeeds *)
FilterByTimestamp(data, X) ==
    LET timestamps == [i \in DOMAIN data.rows |-> ParseTimestamp(data.rows[i].timestamp)]
        parsed == [i \in DOMAIN data.rows |->
                      [data.rows[i] EXCEPT !.timestamp = timestamps[i]]]
    IN Table(data.columns, Masked(parsed, Related(timestamps, X, Len(X))))

(* the selection between the least start and the greatest end of all the  *)
(* windows taken together                                                 *)
FilterByFilenameSpan(X, filenames) ==
    LET least == CHOOSE i \in DOMAIN X : \A j \in DOMAIN X : X[i].start <= X[j].start
        greatest == CHOOSE i \in DOMAIN X : \A j \in DOMAIN X : X[j].end <= X[i].end
        Yield(filename) ==
            /\ StrLeq(Strftime(X[least].start), filename)
            /\ StrLeq(filename, Strftime(X[greatest].end))
    IN SelectSeq(filenames, Yield)

(* GreenGuardRawLoader._filter_by_filename: the filenames it yields *)
FilterByFilename(X, filenames) ==
    LET max_csv == [i \in DOMAIN X |-> Strftime(X[i].end)]
        min_csv == [i \in DOMAIN X |-> Strftime(X[i].start)]
        Yield(filename) ==
            \E i \in DOMAIN X : StrLeq(min_csv[i], filename) /\ StrLeq(filename, max_csv[i])
    IN SelectSeq(filenames, Yield)

(* _get_times adding the window to the cutoff instead of subtracting it *)
GetTimesForward(X, window_size) ==
    [i \in DOMAIN X |->
        [turbine_id |-> X[i].turbine_id,
         start |-> IF window_size # NoWindow
                   THEN X[i].cutoff_time + ToTimedelta(window_size)
                   ELSE DatetimeMin,
         end |-> X[i].cutoff_time]]

(* GreenGuardRawLoader._get_times *)
GetTimes(X, window_size) ==
    LET cutoff_times == [i \in DOMAIN X |-> X[i].cutoff_time]
        min_times ==
            IF window_size # NoWindow
            THEN [i \in DOMAIN X |-> cutoff_times[i] - ToTimedelta(window_size)]
            ELSE [i \in DOMAIN X |-> DatetimeMin]
    IN [i \in DOMAIN X |->
           [turbine_id |-> X[i].turbine_id, start |-> min_times[i], end |-> cutoff_times[i]]]

(* X[X['turbine_id'] == turbine_id] *)
TurbineRows(X, turbine_id) ==
    LET Mine(r) == r.turbine_id = turbine_id
    IN SelectSeq(X, Mine)

(* X.turbine_id.unique() left in its order of first appearance *)
RECURSIVE AppearanceOrder(_)
AppearanceOrder(X) ==
    IF X = <<>> THEN <<>>
    ELSE LET front == AppearanceOrder(SubSeq(X, 1, Len(X) - 1))
             id == X[Len(X)].turbine_id
         IN IF \E i \in DOMAIN front : front[i] = id THEN front ELSE Append(front, id)

(* sorted(X.turbine_id.unique()) *)
SortedTurbineIds(X) == Sorted({X[i].turbine_id : i \in DOMAIN X})

(* X.drop_duplicates(subset=['cutoff_time', 'turbine_id']): keeps the     *)
(* first row of every (cutoff_time, turbine_id) pair                      *)
RECURSIVE DropDuplicates(_)
DropDuplicates(X) ==
    IF X = <<>> THEN <<>>
    ELSE LET front == SubSeq(X, 1, Len(X) - 1)
             last == X[Len(X)]
         IN IF \E i \in DOMAIN front :
                   /\ front[i].cutoff_time = last.cutoff_time
                   /\ front[i].turbine_id = last.turbine_id
            THEN DropDuplicates(front)
            ELSE Append(DropDuplicates(front), last)

(* X['cutoff_time'] = pd.to_datetime(X['cutoff_time']) *)
ParseCutoffs(target_times) ==
    [i \in DOMAIN target_times |->
        [target_times[i] EXCEPT !.cutoff_time = ParseCutoff(target_times[i].cutoff_time)]]

(* the columns of the empty table of _load_turbine_readings *)
EmptyColumns == {"timestamp", "signal_id", "value", "turbine_id"}

(* the concatenation without the branch for an empty list *)
TurbineReadingsUnguarded(parts) == PdConcat(parts)

(* readings of _load_turbine_readings once the loop over the files ended *)
TurbineReadings(parts) ==
    IF parts # <<>> THEN PdConcat(parts) ELSE Table(EmptyColumns, <<>>)

(* turbine_readings['turbine_id'] = turbine_id *)
Tagged(table, turbine_id) ==
    Table(table.columns \cup {"turbine_id"},
          [i \in DOMAIN table.rows |->
              [timestamp |-> table.rows[i].timestamp,
               signal_id |-> table.rows[i].signal_id,
               value |-> table.rows[i].value,
               turbine_id |-> turbine_id]])

(* ---------------------------------------------------------------------- *)
(* GreenGuardLoader and the demo folder                                   *)
(* ---------------------------------------------------------------------- *)

(* GreenGuardLoader._read_csv: the file name read for a table, as parts *)
CsvName(table, gzip) == IF gzip THEN <<table, ".csv", ".gz">> ELSE <<table, ".csv">>

(* keyword parameters of GreenGuardLoader.load *)
LoaderLoadParams == {"return_target"}

(* GreenGuardLoader(dataset, gzip=True).load called with the keywords      *)
(* kwargs and the defaults                                                 *)
(* readings='readings', target_times='target_times': what the call does    *)
(* on a dataset holding the given files                                    *)
LoaderLoad(files, kwargs) ==
    IF ~(kwargs \subseteq LoaderLoadParams) THEN "TypeError"
    ELSE IF CsvName("readings", TRUE) \notin files THEN "FileNotFoundError"
    ELSE IF CsvName("target_times", TRUE) \notin files THEN "FileNotFoundError"
    ELSE "returned"

(* the tables of the S3 bucket *)
Bucket == {CsvName("readings", TRUE), CsvName("target_times", TRUE)}

(* the files load_demo writes into demo_path after a download *)
DemoWritten == {CsvName("targets", TRUE), CsvName("readings", TRUE)}

(* ---------------------------------------------------------------------- *)
(* State                                                                  *)
(* ---------------------------------------------------------------------- *)

MaxEvents == 2
MaxDemoCalls == 2

VARIABLES
    fs,            \* which readings folder the loader reads
    pc,            \* position of the load call
    err,           \* the exception load raised, "" when none
    X,             \* target table, cutoff_time parsed
    signals,       \* the signals table, or NoSignals
    window_size,   \* the window_size argument
    times,         \* the table of _get_times
    todo,          \* turbine ids the loop of _load_readings has yet to visit
    turbine,       \* turbine id of the running _load_turbine_readings
    chosen,        \* the filenames _filter_by_filename yields for it
    fi,            \* index in chosen of the next file to load
    parts,         \* the list readings of _load_turbine_readings
    readings,      \* the list readings of _load_readings
    opened,        \* every file read so far, in order
    out,           \* what load returned
    demo,          \* the demo folder: [exists, files]
    demoCalls,     \* calls of load_demo so far
    downloads,     \* downloads completed by load_demo
    demoOut        \* outcome of the last load_demo call

loadVars == <<pc, err, X, signals, window_size, times, todo, turbine, chosen, fi,
              parts, readings, opened, out>>
demoVars == <<demo, demoCalls, downloads, demoOut>>
vars == <<fs, loadVars, demoVars>>

CutoffTexts ==
    { Cutoff(2020, 1, 16, "long"), Cutoff(2020, 2, 15, "long"),
      Cutoff(2020, 2, 15, "short"), Cutoff(2020, 3, 15, "long") }

TargetRows ==
    { [turbine_id |-> t, cutoff_time |-> c, target |-> IF t = T1 THEN 1 ELSE 0] :
        t \in TurbineIds, c \in CutoffTexts }

TargetTables == UNION {[1..n -> TargetRows] : n \in 0..MaxEvents}

SignalArgs == {NoSignals, SignalList(<<"S1">>)}

WindowArgs == {NoWindow, Rule(0, "d"), Rule(30, "d")}

NoOut == [returned |-> FALSE]

Init ==
    /\ fs \in FsKinds
    /\ pc = "idle"
    /\ err = ""
    /\ X = <<>>
    /\ signals = NoSignals
    /\ window_size = NoWindow
    /\ times = <<>>
    /\ todo = <<>>
    /\ turbine = <<>>
    /\ chosen = <<>>
    /\ fi = 1
    /\ parts = <<>>
    /\ readings = <<>>
    /\ opened = <<>>
    /\ out = NoOut
    /\ demo = [exists |-> FALSE, files |-> {}]
    /\ demoCalls = 0
    /\ downloads = 0
    /\ demoOut = ""

Raise(e) ==
    /\ pc' = "failed"
    /\ err' = e

(* load, lines 273-289, and _load_readings up to its loop, lines 233-237 *)
Load(target_times, sigs, ws) ==
    /\ pc = "idle"
    /\ LET parsed == ParseCutoffs(target_times)
           without_duplicates == DropDuplicates(parsed)
       IN /\ X' = parsed
          /\ IF Len(parsed) # Len(without_duplicates)
             THEN /\ Raise("ValueError: Duplicate rows found in target_times")
                  /\ UNCHANGED <<signals, window_size, times, todo>>
             ELSE /\ pc' = "turbines"
                  /\ signals' = sigs
                  /\ window_size' = ws
                  /\ times' = GetTimes(parsed, ws)
                  /\ todo' = SortedTurbineIds(parsed)
                  /\ UNCHANGED err
    /\ UNCHANGED <<fs, turbine, chosen, fi, parts, readings, opened, out, demoVars>>

(* _load_readings lines 238-241 and _load_turbine_readings lines 194-198:  *)
(* the next turbine's folder is listed and its filenames filtered.  With   *)
(* window_size None the start column holds datetime.min objects, which     *)
(* pandas may keep as an object column: X.start.dt then raises.            *)
BeginTurbine ==
    /\ pc = "turbines"
    /\ todo # <<>>
    /\ LET turbine_id == Head(todo)
           turbine_X == TurbineRows(times, turbine_id)
           filenames == Sorted(Listdir(fs, turbine_id))
       IN /\ turbine' = turbine_id
          /\ todo' = Tail(todo)
          /\ \/ /\ pc' = "files"
                /\ chosen' = FilterByFilename(turbine_X, filenames)
                /\ UNCHANGED err
             \/ /\ window_size = NoWindow
                /\ Raise("AttributeError: Can only use .dt accessor with datetimelike values")
                /\ UNCHANGED chosen
    /\ fi' = 1
    /\ parts' = <<>>
    /\ UNCHANGED <<fs, X, signals, window_size, times, readings, opened, out, demoVars>>

(* one iteration of the loop of _load_turbine_readings, lines 201-207 *)
LoadFile ==
    /\ pc = "files"
    /\ fi <= Len(chosen)
    /\ LET readings_file == chosen[fi]
           data == FilterBySignal(LoadReadingsFile(FileAt(fs, turbine, readings_file)), signals)
           column == [i \in DOMAIN data.rows |-> data.rows[i].timestamp]
       IN /\ opened' = Append(opened, [turbine_id |-> turbine, file |-> readings_file])
          /\ IF ToDatetimeRaises(column)
             THEN /\ Raise("ValueError: time data does not match format")
                  /\ UNCHANGED <<fi, parts>>
             ELSE /\ parts' = Append(parts, FilterByTimestamp(data, TurbineRows(times, turbine)))
                  /\ fi' = fi + 1
                  /\ UNCHANGED <<pc, err>>
    /\ UNCHANGED <<fs, X, signals, window_size, times, todo, turbine, chosen, readings,
                   out, demoVars>>

(* _load_turbine_readings lines 209-216 and _load_readings lines 242-243 *)
EndTurbine ==
    /\ pc = "files"
    /\ fi > Len(chosen)
    /\ readings' = Append(readings, Tagged(TurbineReadings(parts), turbine))
    /\ pc' = "turbines"
    /\ UNCHANGED <<fs, err, X, signals, window_size, times, todo, turbine, chosen, fi,
                   parts, opened, out, demoVars>>

(* _load_readings line 245 and load lines 290-297; pd.concat raises on an  *)
(* empty list                                                              *)
Return(return_target) ==
    /\ pc = "turbines"
    /\ todo = <<>>
    /\ IF readings = <<>>
       THEN /\ Raise("ValueError: No objects to concatenate")
            /\ UNCHANGED out
       ELSE /\ pc' = "done"
            /\ out' = [returned |-> TRUE,
                       X |-> [i \in DOMAIN X |->
                                 IF return_target
                                 THEN [turbine_id |-> X[i].turbine_id,
                                       cutoff_time |-> X[i].cutoff_time]
                                 ELSE X[i]],
                       y |-> IF return_target THEN [i \in DOMAIN X |-> X[i].target] ELSE <<>>,
                       readings |-> PdConcat(readings)]
            /\ UNCHANGED err
    /\ UNCHANGED <<fs, X, signals, window_size, times, todo, turbine, chosen, fi, parts,
                   readings, opened, demoVars>>

(* load_demo.  It shares no state with GreenGuardRawLoader.load; the model  *)
(* runs its calls once the load call is over.                              *)
LoadDemo ==
    /\ pc \in {"done", "failed"}
    /\ demoCalls < MaxDemoCalls
    /\ demoCalls' = demoCalls + 1
    /\ IF demo.exists
       THEN /\ demoOut' = LoaderLoad(demo.files, {})
            /\ UNCHANGED <<demo, downloads>>
       ELSE LET made == [exists |-> TRUE, files |-> {}]
                got == LoaderLoad(Bucket, {"target"})
            IN IF got = "returned"
               THEN /\ demo' = [made EXCEPT !.files = DemoWritten]
                    /\ downloads' = downloads + 1
                    /\ demoOut' = "returned"
               ELSE /\ demo' = [exists |-> FALSE, files |-> {}]
                    /\ demoOut' = got
                    /\ UNCHANGED downloads
    /\ UNCHANGED <<fs, loadVars>>

Next ==
    \/ \E target_times \in TargetTables, sigs \in SignalArgs, ws \in WindowArgs :
          Load(target_times, sigs, ws)
    \/ BeginTurbine
    \/ LoadFile
    \/ EndTurbine
    \/ \E return_target \in BOOLEAN : Return(return_target)
    \/ LoadDemo

Spec == Init /\ [][Next]_vars

(* ---------------------------------------------------------------------- *)
(* Properties                                                             *)
(* ---------------------------------------------------------------------- *)

DuplicateError == "ValueError: Duplicate rows found in target_times"
TimeDataError == "ValueError: time data does not match format"
ConcatError == "ValueError: No objects to concatenate"

(* load got past the duplicate check, so _get_times has run *)
Resolved == pc # "idle" /\ err # DuplicateError

(* the lookback of a rule, in days *)
LookbackDays(ws) ==
    CASE ws.unit = "d" -> ws.n
      [] ws.unit = "W" -> 7 * ws.n

(* every timestamp of every file of the folder that reads as a time *)
AllTimes ==
    { ParseTimestamp(f.rows[i].timestamp) :
        <<f, i>> \in { <<g, j>> \in (UNION {Folder(fs, t) : t \in TurbineIds}) \X (1..4) :
                         j \in DOMAIN g.rows /\ TimestampParses(g.rows[j].timestamp) } }

(* C9: _get_times gives one window per target event, at the event's index  *)
(* and with its turbine_id; end is the cutoff; start is the cutoff minus    *)
(* the lookback when window_size is given, and otherwise datetime.min,      *)
(* below every reading's time; start <= end.                                *)
C9_Windows ==
    Resolved =>
        /\ Len(times) = Len(X)
        /\ \A i \in DOMAIN X :
              /\ times[i].turbine_id = X[i].turbine_id
              /\ times[i].end = X[i].cutoff_time
              /\ times[i].start <= times[i].end
              /\ IF window_size = NoWindow
                 THEN /\ times[i].start = DatetimeMin
                      /\ \A t \in AllTimes : times[i].start <= t
                 ELSE times[i].end - times[i].start = LookbackDays(window_size)

(* two events of different turbines and cutoffs, with a lookback of 30 days *)
C9_Witness ==
    /\ Resolved
    /\ Len(times) = 2
    /\ times[1].turbine_id # times[2].turbine_id
    /\ times[1].end # times[2].end
    /\ window_size = Rule(30, "d")

(* the windows of the running turbine *)
Windows == TurbineRows(times, turbine)

InSomeWindow(t) == \E i \in DOMAIN Windows : Windows[i].start <= t /\ t <= Windows[i].end

(* the table the Window Filter was given for the k-th chosen file *)
FilterInput(k) == FilterBySignal(LoadReadingsFile(FileAt(fs, turbine, chosen[k])), signals)

(* how often a reading of the given value occurs in a sequence of rows *)
Copies(rows, v) == Cardinality({i \in DOMAIN rows : rows[i].value = v})

(* C5: the Window Filter returns, in their order, the rows of its input     *)
(* whose timestamp t has start <= t <= end for at least one window of the   *)
(* turbine, both ends included, each of them as often as the input holds    *)
(* it, however many windows it falls in.                                    *)
C5_WindowFilter ==
    pc = "files" =>
        \A k \in DOMAIN parts :
            LET given == FilterInput(k).rows
                Kept(r) == InSomeWindow(ParseTimestamp(r.timestamp))
                kept == SelectSeq(given, Kept)
            IN /\ Len(parts[k].rows) = Len(kept)
               /\ \A i \in DOMAIN kept :
                     /\ parts[k].rows[i].value = kept[i].value
                     /\ parts[k].rows[i].signal_id = kept[i].signal_id
                     /\ parts[k].rows[i].timestamp = ParseTimestamp(kept[i].timestamp)
               /\ \A i \in DOMAIN given :
                     Copies(parts[k].rows, given[i].value) <= Copies(given, given[i].value)

(* two overlapping windows of one turbine, and kept rows that lie in both,  *)
(* at the start of one and at the end of one                                *)
C5_Witness ==
    /\ pc = "files"
    /\ Len(Windows) = 2
    /\ \E k \in DOMAIN parts : \E i \in DOMAIN parts[k].rows :
          LET t == parts[k].rows[i].timestamp
          IN /\ Windows[1].start <= t /\ t <= Windows[1].end
             /\ Windows[2].start <= t /\ t <= Windows[2].end
    /\ \E k \in DOMAIN parts : \E i \in DOMAIN parts[k].rows : \E w \in DOMAIN Windows :
          /\ parts[k].rows[i].timestamp = Windows[w].start
          /\ Windows[w].start < Windows[w].end
    /\ \E k \in DOMAIN parts : \E i \in DOMAIN parts[k].rows : \E w \in DOMAIN Windows :
          /\ parts[k].rows[i].timestamp = Windows[w].end
          /\ Windows[w].start < Windows[w].end

(* year and month of a time, as one number *)
MonthIndex(t) == 12 * YearOf(t) + MonthOf(t)

(* the files of the folder of the running turbine named for month m of y *)
NamedFor(name, y, m) == name = PlainName(y, m) \/ name = DashName(y, m)

(* C3, as stated: a filename is yielded iff it lies between the encoding of *)
(* the least start and the encoding of the greatest end of all the windows  *)
(* of the turbine.                                                          *)
C3_Original ==
    pc = "files" /\ Windows # <<>> =>
        chosen = FilterByFilenameSpan(Windows, Sorted(Listdir(fs, turbine)))

(* C3, amended: a filename is yielded iff it lies between the encoding of   *)
(* the start and the encoding of the end of one and the same window.  For a *)
(* file named YYYY-MM-.csv that is: its month is between the month of that  *)
(* window's start and the month of its end; for a file named YYYY-MM.csv:   *)
(* its month is at or after the month of the start and before the month of  *)
(* the end.  The files are yielded in ascending order of their names.       *)
C3_PerWindow ==
    pc = "files" =>
        /\ \A name \in Listdir(fs, turbine) :
              \A y \in Years : \A m \in 1..12 :
                 NamedFor(name, y, m) =>
                    ( (\E k \in DOMAIN chosen : chosen[k] = name)
                      <=> \E i \in DOMAIN Windows :
                             /\ MonthIndex(Windows[i].start) <= 12 * y + m
                             /\ IF name = DashName(y, m)
                                THEN 12 * y + m <= MonthIndex(Windows[i].end)
                                ELSE 12 * y + m < MonthIndex(Windows[i].end) )
        /\ \A k \in DOMAIN chosen : chosen[k] \in Listdir(fs, turbine)
        /\ \A j, k \in DOMAIN chosen : j < k => chosen[j] # chosen[k] /\ StrLeq(chosen[j], chosen[k])

(* two windows apart in time: the files of their months are yielded, the    *)
(* file of the month between them is not                                    *)
C3_Witness ==
    /\ pc = "files"
    /\ Len(Windows) = 2
    /\ turbine = T1
    /\ DashName(2020, 2) \in Listdir(fs, turbine)
    /\ chosen = <<DashName(2020, 1), DashName(2020, 3)>>

(* the file and the row a reading of turbine t with value v was read from *)
OriginFile(t, v) ==
    (CHOOSE f \in Folder(fs, t) : \E i \in DOMAIN f.rows : f.rows[i].value = v).name

OriginRow(t, v) ==
    LET f == CHOOSE g \in Folder(fs, t) : \E i \in DOMAIN g.rows : g.rows[i].value = v
    IN CHOOSE i \in DOMAIN f.rows : f.rows[i].value = v

StrLess(a, b) == StrLeq(a, b) /\ a # b

(* C7: turbines are visited in ascending order of turbine_id whatever the   *)
(* order of the target table: the files are opened turbine after turbine,   *)
(* those of one turbine in ascending order of filename; in the returned     *)
(* readings the rows of a turbine precede those of every greater turbine,   *)
(* and within a turbine they follow filename order, then the row order of   *)
(* the file.                                                                *)
C7_Order ==
    /\ \A i, j \in DOMAIN opened :
          i < j =>
             \/ StrLess(opened[i].turbine_id, opened[j].turbine_id)
             \/ /\ opened[i].turbine_id = opened[j].turbine_id
                /\ StrLess(opened[i].file, opened[j].file)
    /\ pc = "done" =>
          LET rows == out.readings.rows
          IN \A i, j \in DOMAIN rows :
                i < j =>
                   \/ StrLess(rows[i].turbine_id, rows[j].turbine_id)
                   \/ /\ rows[i].turbine_id = rows[j].turbine_id
                      /\ LET t == rows[i].turbine_id
                             fi_ == OriginFile(t, rows[i].value)
                             fj_ == OriginFile(t, rows[j].value)
                         IN \/ StrLess(fi_, fj_)
                            \/ /\ fi_ = fj_
                               /\ OriginRow(t, rows[i].value) < OriginRow(t, rows[j].value)

(* a table listing T2 before T1; T1 read from two files or more and two of  *)
(* its rows from one file; rows of both turbines returned                   *)
C7_Witness ==
    /\ pc = "done"
    /\ Len(X) = 2
    /\ X[1].turbine_id = T2
    /\ X[2].turbine_id = T1
    /\ Len(opened) >= 3
    /\ \E i, j \in DOMAIN out.readings.rows :
          /\ out.readings.rows[i].turbine_id = T1
          /\ out.readings.rows[j].turbine_id = T2
    /\ \E i, j \in DOMAIN out.readings.rows :
          /\ i < j
          /\ out.readings.rows[i].turbine_id = T1
          /\ out.readings.rows[j].turbine_id = T1
          /\ OriginFile(T1, out.readings.rows[i].value) = OriginFile(T1, out.readings.rows[j].value)

(* an opened file holds a row whose timestamp is not MM/DD/YY HH:MM:SS *)
Malformed(o) ==
    LET f == FileAt(fs, o.turbine_id, o.file)
    IN \E i \in DOMAIN f.rows : ~TimestampParses(f.rows[i].timestamp)

(* ... and that row is of a signal the load call asked for *)
MalformedAsked(o) ==
    LET f == FileAt(fs, o.turbine_id, o.file)
    IN \E i \in DOMAIN f.rows :
          /\ ~TimestampParses(f.rows[i].timestamp)
          /\ signals.isNone \/ Isin(f.rows[i].signal, signals.signal_id)

(* C6, as stated: load never returns after reading a file that holds a row  *)
(* with a malformed timestamp, whatever the signal of that row.             *)
C6_Original == pc = "done" => \A k \in DOMAIN opened : ~Malformed(opened[k])

(* C6, amended: once a file was read that holds a row with a malformed      *)
(* timestamp whose signal is in the signal set (any signal when no set is   *)
(* given), the load call has failed with a ValueError; what load returns    *)
(* holds no reading without a time.                                         *)
C6_FatalWhenAsked ==
    /\ (\E k \in DOMAIN opened : MalformedAsked(opened[k]))
          => pc = "failed" /\ err = TimeDataError
    /\ pc = "done" =>
          \A i \in DOMAIN out.readings.rows : out.readings.rows[i].timestamp # NaT

C6_Witness ==
    /\ pc = "failed"
    /\ err = TimeDataError
    /\ opened # <<>>
    /\ MalformedAsked(opened[Len(opened)])

(* the files _filter_by_filename yields for a turbine of the target table *)
ChosenFor(t) == FilterByFilename(TurbineRows(times, t), Sorted(Listdir(fs, t)))

AtReturnOfTurbine == pc = "files" /\ fi > Len(chosen)

AllPartsEmpty == \A k \in DOMAIN parts : parts[k].rows = <<>>

(* C8, as stated: _load_turbine_readings returns an empty table with the    *)
(* columns timestamp, signal_id, value, turbine_id both when no file was    *)
(* yielded and when every file was filtered down to no row.                 *)
C8_Original ==
    AtReturnOfTurbine /\ AllPartsEmpty =>
        TurbineReadings(parts) = Table(EmptyColumns, <<>>)

(* C8, amended: with no file yielded _load_turbine_readings returns an      *)
(* empty table with the columns timestamp, signal_id, value, turbine_id;    *)
(* with every file filtered down to no row it returns an empty table with   *)
(* the columns of the files, timestamp, signal_id, value, and turbine_id    *)
(* is there once _load_readings has set it.  Either way load goes on: the   *)
(* concatenation fails only for a target table without rows, and a load     *)
(* that returns holds no reading of that turbine.                           *)
C8_EmptyTables ==
    /\ AtReturnOfTurbine /\ AllPartsEmpty =>
          /\ TurbineReadings(parts).rows = <<>>
          /\ TurbineReadings(parts).columns =
                IF chosen = <<>> THEN EmptyColumns ELSE {"timestamp", "signal_id", "value"}
    /\ \A k \in DOMAIN readings :
          readings[k].rows = <<>> => readings[k].columns = EmptyColumns
    /\ (pc = "failed" /\ err = ConcatError) => X = <<>> /\ readings = <<>>
    /\ pc = "done" =>
          /\ out.readings.columns = EmptyColumns
          /\ Len(out.readings.rows) = Len(Flatten([k \in DOMAIN readings |-> readings[k].rows]))

(* load returned; one turbine had no file yielded, another had a file read  *)
(* and filtered down to no row                                              *)
C8_Witness ==
    /\ pc = "done"
    /\ Len(readings) = 2
    /\ readings[1].rows = <<>>
    /\ readings[2].rows = <<>>
    /\ ChosenFor(T1) # <<>>
    /\ ChosenFor(T2) = <<>>
    /\ out.readings.rows = <<>>

(* the target table holds some (turbine_id, cutoff_time) pair twice *)
HasDuplicate ==
    \E i, j \in DOMAIN X :
        i < j /\ X[i].turbine_id = X[j].turbine_id /\ X[i].cutoff_time = X[j].cutoff_time

Returned == pc = "done"

(* the readings the claim C1 expects of a load call, as (turbine, value)    *)
(* pairs: the rows of the files of the targeted turbines whose signal was   *)
(* asked for and whose time lies in the window of an event of the turbine   *)
Expected ==
    { <<t, v>> \in TurbineIds \X (1..99) :
        \E f \in Folder(fs, t) : \E k \in DOMAIN f.rows :
           /\ f.rows[k].value = v
           /\ signals.isNone \/ Isin(f.rows[k].signal, signals.signal_id)
           /\ TimestampParses(f.rows[k].timestamp)
           /\ \E i \in DOMAIN times :
                 /\ times[i].turbine_id = t
                 /\ times[i].start <= ParseTimestamp(f.rows[k].timestamp)
                 /\ ParseTimestamp(f.rows[k].timestamp) <= times[i].end }

(* those of them that sit in a file named for the month of their timestamp *)
ExpectedByName ==
    { <<t, v>> \in Expected :
        \E f \in Folder(fs, t) : \E k \in DOMAIN f.rows :
           /\ f.rows[k].value = v
           /\ NamedFor(f.name, YearOf(ParseTimestamp(f.rows[k].timestamp)),
                       MonthOf(ParseTimestamp(f.rows[k].timestamp))) }

Loaded == { <<out.readings.rows[i].turbine_id, out.readings.rows[i].value>> :
              i \in DOMAIN out.readings.rows }

(* C1: a load call with a lookback returns exactly the rows of the targeted *)
(* turbines' files (named like 2020-02.csv) whose signal is in the signal   *)
(* set and whose timestamp lies in [cutoff - L, cutoff] of some event of    *)
(* the turbine: none added, none twice, and none missing, at the least      *)
(* none of those that sit in the file named for their month.                *)
C1_ExactRows ==
    Returned /\ window_size # NoWindow =>
        /\ Loaded \subseteq Expected
        /\ ExpectedByName \subseteq Loaded
        /\ Len(out.readings.rows) = Cardinality(Loaded)

(* C2: _filter_by_filename yields every file of the turbine that holds a    *)
(* row inside one of the turbine's windows, at the least when the file is   *)
(* named for the month of that row.                                         *)
C2_Conservative ==
    pc = "files" /\ Windows # <<>> /\ window_size # NoWindow =>
        \A f \in Folder(fs, turbine) :
            (\E k \in DOMAIN f.rows :
                /\ TimestampParses(f.rows[k].timestamp)
                /\ InSomeWindow(ParseTimestamp(f.rows[k].timestamp))
                /\ NamedFor(f.name, YearOf(ParseTimestamp(f.rows[k].timestamp)),
                            MonthOf(ParseTimestamp(f.rows[k].timestamp))))
            => \E k \in DOMAIN chosen : chosen[k] = f.name

(* C4: a load call on a table without a duplicate (turbine_id, cutoff_time) *)
(* pair returns, and one on a table with such a pair raises the duplicate   *)
(* error.  Read with everything else in order: every timestamp of the       *)
(* folder well-formed, no error of the start column.                       *)
C4_Validation ==
    (pc \in {"done", "failed"} /\ fs # "dashbad" /\ err # TimeDataError
        /\ err # "AttributeError: Can only use .dt accessor with datetimelike values") =>
        IF HasDuplicate
        THEN pc = "failed" /\ err = DuplicateError
        ELSE pc = "done"

(* C10: a call of load_demo returns; the first one downloads the data and   *)
(* leaves the demo folder behind, the later ones read the folder; there is  *)
(* never more than one download.                                            *)
C10_DemoCache ==
    demoCalls >= 1 =>
        /\ demoOut = "returned"
        /\ demo.exists
        /\ downloads = 1

====
